---- MODULE Spec2Model ----
(***************************************************************************)
(* A model of bin/wizk8s.py (and of its older variant bin/deployk8s.py):   *)
(* the naming functions, the sidecar config store, the secretfiles tree    *)
(* scanner, the secret synchronizer and the wizard commands built on them. *)
(*                                                                         *)
(* Strings the code takes apart character by character (names, paths) are  *)
(* sequences of one-character strings; opaque values are TLA+ strings.     *)
(***************************************************************************)
EXTENDS Naturals, Sequences, FiniteSets

VARIABLES
    last,       \* the last call of a pure function: its name, arguments, result
    fs,         \* the local environment directory of the run (inputs)
    sidecar,    \* the persisted wiz.yaml of every environment directory
    nsCache,    \* functools.cache of load_namespace_from_config
    prompts,    \* per directory: click.prompt calls made by load_namespace_from_config
    remote,     \* the cluster: (namespace, secret name) -> contents
    pc,         \* position of the running command
    todo,       \* secrets the running push has still to sync
    calls,      \* collaborator calls (kubectl) of the running command, in order
    exit,       \* outcome of the command
    locals,     \* local variables of the running wiz_setup
    namespaces, \* the cluster: the namespaces that exist
    returned    \* per directory: what load_namespace_from_config first returned in this process

vars == <<last, fs, sidecar, nsCache, prompts, remote, pc, todo, calls, exit,
          locals, namespaces, returned>>

(***************************************************************************)
(* Characters and strings                                                  *)
(***************************************************************************)
AsciiUpper == <<"A","B","C","D","E","F","G","H","I","J","K","L","M",
                "N","O","P","Q","R","S","T","U","V","W","X","Y","Z">>

AsciiLower == <<"a","b","c","d","e","f","g","h","i","j","k","l","m",
                "n","o","p","q","r","s","t","u","v","w","x","y","z">>

AsciiDigits == <<"0","1","2","3","4","5","6","7","8","9">>

Range(s) == {s[i] : i \in DOMAIN s}

\* string.lower() on one character
LowerChar(c) ==
    IF \E i \in DOMAIN AsciiUpper : AsciiUpper[i] = c
    THEN AsciiLower[CHOOSE i \in DOMAIN AsciiUpper : AsciiUpper[i] = c]
    ELSE c

StrLower(s) == [i \in 1..Len(s) |-> LowerChar(s[i])]

\* str.replace(old, new) for one-character old and new
StrReplace(s, old, new) == [i \in 1..Len(s) |-> IF s[i] = old THEN new ELSE s[i]]

\* s[from..to] as a string, empty when from > to
Slice(s, from, to) == [i \in 1..(IF to >= from THEN to - from + 1 ELSE 0) |-> s[from + i - 1]]

\* does sep occur in s at index i
OccursAt(s, sep, i) ==
    /\ i >= 1
    /\ i + Len(sep) - 1 <= Len(s)
    /\ \A k \in 1..Len(sep) : s[i + k - 1] = sep[k]

\* index of the first occurrence of sep in s at or after from, 0 when none
FindFrom(s, sep, from) ==
    IF \E i \in from..Len(s) : OccursAt(s, sep, i)
    THEN CHOOSE i \in from..Len(s) :
            /\ OccursAt(s, sep, i)
            /\ \A j \in from..(i - 1) : ~OccursAt(s, sep, j)
    ELSE 0

\* str.split(sep)[1]: the text between the first and the second occurrence of
\* sep (or the end of s); sep occurs at least once in every s it is applied to
SplitSecond(s, sep) ==
    LET first == FindFrom(s, sep, 1)
        start == first + Len(sep)
        next  == FindFrom(s, sep, start)
    IN  IF next = 0 THEN Slice(s, start, Len(s)) ELSE Slice(s, start, next - 1)

(***************************************************************************)
(* Naming engine                                                           *)
(***************************************************************************)
GENERIC_SECRET_FIELD_NAME == <<"v","a","l","u","e">>

VOL_MNT_WHITELIST == {"-"} \cup Range(AsciiLower) \cup Range(AsciiDigits)

make_release_name(chart_name, env) == chart_name \o <<"-">> \o env

make_envsecret_name(env, env_var_name) ==
    LET env_var_slug == StrReplace(StrLower(env_var_name), "_", "-")
    IN  <<"e","n","v","s","e","c","r","e","t","-">> \o env \o <<"-">> \o env_var_slug

\* the slug without its whitelist: the string is lower-cased and nothing else
SlugLowersOnly(filepath) == StrLower(filepath)

\* the slug of make_mntsecret_name: the lower-cased string with every
\* character outside the whitelist turned into '-'
Slug(filepath) ==
    LET low == StrLower(filepath)
    IN  [i \in 1..Len(low) |-> IF low[i] \in VOL_MNT_WHITELIST THEN low[i] ELSE "-"]

make_mntsecret_name(env, filepath) ==
    <<"m","n","t","s","e","c","r","e","t","-">> \o env \o <<"-">> \o Slug(filepath)

make_envsecret(env, env_var_name) ==
    [name |-> env_var_name,
     valueFrom |-> [secretKeyRef |->
                      [key |-> GENERIC_SECRET_FIELD_NAME,
                       name |-> make_envsecret_name(env, env_var_name)]]]

\* the mount of make_mntsecret_volume_data left writable
VolumeDataWritable(env, mntdir) ==
    LET name == make_mntsecret_name(env, mntdir)
    IN  [vol     |-> [name |-> name, secret |-> [secretName |-> name]],
         vol_mnt |-> [mountPath |-> mntdir, name |-> name, readOnly |-> FALSE]]

make_mntsecret_volume_data(env, mntdir) ==
    LET name == make_mntsecret_name(env, mntdir)
    IN  [vol     |-> [name |-> name, secret |-> [secretName |-> name]],
         vol_mnt |-> [mountPath |-> mntdir, name |-> name, readOnly |-> TRUE]]

(***************************************************************************)
(* Paths (pathlib.PurePosixPath on the strings the scanner builds)         *)
(***************************************************************************)
RECURSIVE Join(_)
\* "/".join(parts)
Join(parts) ==
    IF parts = <<>> THEN <<>>
    ELSE IF Len(parts) = 1 THEN parts[1]
    ELSE parts[1] \o <<"/">> \o Join(Tail(parts))

RECURSIVE PathParts(_)
\* the components of a path string: empty and "." components are dropped
PathParts(s) ==
    IF s = <<>> THEN <<>>
    ELSE LET i    == FindFrom(s, <<"/">>, 1)
             head == IF i = 0 THEN s ELSE Slice(s, 1, i - 1)
             rest == IF i = 0 THEN <<>> ELSE Slice(s, i + 1, Len(s))
             keep == IF head = <<>> \/ head = <<".">> THEN <<>> ELSE <<head>>
         IN  keep \o PathParts(rest)

\* str(Path(s).parent)
PathParentStr(s) ==
    LET parts == PathParts(s)
        abs   == Len(s) >= 1 /\ s[1] = "/"
        up    == IF parts = <<>> THEN <<>> ELSE SubSeq(parts, 1, Len(parts) - 1)
    IN  IF abs THEN <<"/">> \o Join(up)
        ELSE IF up = <<>> THEN <<".">> ELSE Join(up)

\* dirpath / name, as a string; Path(".") / name is name
PathJoin(dirpath, name) ==
    IF dirpath = <<".">> THEN name
    ELSE IF dirpath = <<"/">> THEN <<"/">> \o name
    ELSE dirpath \o <<"/">> \o name

(***************************************************************************)
(* Tree scanner                                                            *)
(***************************************************************************)
\* dir_bucket[key].append(meta) on an insertion-ordered dict, kept as a
\* sequence of [key, metas] in insertion order
BucketAppend(bucket, key, meta) ==
    IF \E i \in DOMAIN bucket : bucket[i].key = key
    THEN [i \in DOMAIN bucket |->
            IF bucket[i].key = key
            THEN [bucket[i] EXCEPT !.metas = Append(@, meta)]
            ELSE bucket[i]]
    ELSE Append(bucket, [key |-> key, metas |-> <<meta>>])

\* one iteration of the loop over dirpath.rglob('*')
BucketEntry(dirpath, bucket, entry) ==
    IF entry.isDir THEN bucket
    ELSE LET local_path  == PathJoin(dirpath, Join(entry.rel))
             remote_path == SplitSecond(local_path, dirpath)
         IN  BucketAppend(bucket, PathParentStr(remote_path),
                          [filename   |-> entry.rel[Len(entry.rel)],
                           local_path |-> local_path])

RECURSIVE BucketAll(_, _, _)
BucketAll(dirpath, entries, bucket) ==
    IF entries = <<>> THEN bucket
    ELSE BucketAll(dirpath, Tail(entries), BucketEntry(dirpath, bucket, Head(entries)))

\* _get_file_metas(dirpath): entries are what rglob yields, in traversal order
_get_file_metas(dirpath, entries) == BucketAll(dirpath, entries, <<>>)

(***************************************************************************)
(* Config store: the sidecar wiz.yaml of an environment directory          *)
(***************************************************************************)
\* a document is a function from the keys it holds to their values; a key
\* whose value is null counts as not held (config.get(key) is None)
EmptyDoc == [k \in {} |-> <<>>]

Put(doc, key, val) == [k \in (DOMAIN doc) \cup {key} |-> IF k = key THEN val ELSE doc[k]]

\* load_wiz_config(dirpath) without a key: FileNotFoundError gives {}
load_wiz_config(sc, dirpath) ==
    IF sc[dirpath].exists THEN sc[dirpath].doc ELSE EmptyDoc

\* load_wiz_config(dirpath, key): UsageError when the key is not set
load_wiz_config_key(sc, dirpath, key) ==
    LET config == load_wiz_config(sc, dirpath)
    IN  IF key \in DOMAIN config
        THEN [raised |-> FALSE, val |-> config[key]]
        ELSE [raised |-> TRUE, val |-> <<>>]

write_wiz_config(sc, dirpath, config) ==
    [sc EXCEPT ![dirpath] = [exists |-> TRUE, doc |-> config]]

\* the prompted branch persisting only the new key
KeyOrPromptDropsOthers(sc, dirpath, key, answer) ==
    LET r == load_wiz_config_key(sc, dirpath, key)
    IN  IF ~r.raised
        THEN [raised |-> FALSE, val |-> r.val, prompted |-> FALSE, sidecar |-> sc]
        ELSE IF answer = <<>>
        THEN [raised |-> TRUE, val |-> <<>>, prompted |-> TRUE, sidecar |-> sc]
        ELSE [raised |-> FALSE, val |-> answer, prompted |-> TRUE,
              sidecar |-> write_wiz_config(sc, dirpath, Put(EmptyDoc, key, answer))]

\* load_wiz_config_key_or_prompt(dirpath, key); answer is what click.prompt
\* returns, the empty string making the handler re-raise
load_wiz_config_key_or_prompt(sc, dirpath, key, answer) ==
    LET r == load_wiz_config_key(sc, dirpath, key)
    IN  IF ~r.raised
        THEN [raised |-> FALSE, val |-> r.val, prompted |-> FALSE, sidecar |-> sc]
        ELSE IF answer = <<>>
        THEN [raised |-> TRUE, val |-> <<>>, prompted |-> TRUE, sidecar |-> sc]
        ELSE [raised |-> FALSE, val |-> answer, prompted |-> TRUE,
              sidecar |-> write_wiz_config(sc, dirpath,
                              Put(load_wiz_config(sc, dirpath), key, answer))]

\* the namespace resolved afresh on every call, no memo consulted
NamespaceUncached(sc, cache, dirpath, answer) ==
    LET r == load_wiz_config_key_or_prompt(sc, dirpath, "namespace", answer)
    IN  [raised |-> r.raised, val |-> r.val, prompted |-> r.prompted,
         sidecar |-> r.sidecar, cache |-> cache]

\* @cache load_namespace_from_config(dirpath): a returned value is memoized
\* under dirpath, an exception is not
load_namespace_from_config(sc, cache, dirpath, answer) ==
    IF dirpath \in DOMAIN cache
    THEN [raised |-> FALSE, val |-> cache[dirpath], prompted |-> FALSE,
          sidecar |-> sc, cache |-> cache]
    ELSE LET r == load_wiz_config_key_or_prompt(sc, dirpath, "namespace", answer)
         IN  [raised |-> r.raised, val |-> r.val, prompted |-> r.prompted,
              sidecar |-> r.sidecar,
              cache |-> IF r.raised THEN cache ELSE Put(cache, dirpath, r.val)]

(***************************************************************************)
(* Secret synchronizer                                                     *)
(***************************************************************************)
\* what subprocess.run(..., timeout=30) can do: exit 0, exit non-zero, or
\* raise TimeoutExpired
Outcomes == {"ok", "nonzero", "timeout"}

\* exec_io: CalledProcessError is caught and stderr printed; only the timeout
\* leaves it as an exception
exec_io_raises(outcome) == outcome = "timeout"

\* `kubectl apply -f -` on the rendered manifest; an empty input (the render
\* printed nothing) holds no object and cannot be accepted
ApplyOutcomes(renderOut) == IF renderOut = "ok" THEN Outcomes ELSE Outcomes \ {"ok"}

\* _set_secret_multi_cmd(namespace, secret_name, secrets) with the outcomes of
\* its two kubectl calls: the cluster afterwards, the calls made, and whether
\* it raised
_set_secret_multi_cmd(rem, namespace, secret_name, secrets, renderOut, applyOut) ==
    LET render == [op |-> "render", name |-> secret_name, outcome |-> renderOut]
        apply  == [op |-> "apply", name |-> secret_name, outcome |-> applyOut]
    IN  IF exec_io_raises(renderOut)
        THEN [remote |-> rem, calls |-> <<render>>, raised |-> TRUE]
        ELSE [remote |-> IF renderOut = "ok" /\ applyOut = "ok"
                         THEN Put(rem, <<namespace, secret_name>>, secrets)
                         ELSE rem,
              calls  |-> <<render, apply>>,
              raised |-> exec_io_raises(applyOut)]

\* _set_secret_cmd(namespace, secret_name, secret_value)
_set_secret_cmd(rem, namespace, secret_name, secret_value, renderOut, applyOut) ==
    _set_secret_multi_cmd(rem, namespace, secret_name,
        Put(EmptyDoc, GENERIC_SECRET_FIELD_NAME, secret_value), renderOut, applyOut)

(***************************************************************************)
(* Local files and the file materializer                                   *)
(***************************************************************************)
\* index of the last "/" of s, 0 when it has none
LastSlash(s) ==
    IF \E i \in DOMAIN s : s[i] = "/"
    THEN CHOOSE i \in DOMAIN s : s[i] = "/" /\ \A j \in (i + 1)..Len(s) : s[j] # "/"
    ELSE 0

RECURSIVE RStripSlash(_)
RStripSlash(s) ==
    IF s # <<>> /\ s[Len(s)] = "/" THEN RStripSlash(SubSeq(s, 1, Len(s) - 1)) ELSE s

\* os.path.dirname and os.path.basename
os_path_dirname(p) ==
    LET head == SubSeq(p, 1, LastSlash(p))
    IN  IF head # <<>> /\ \E i \in DOMAIN head : head[i] # "/"
        THEN RStripSlash(head)
        ELSE head

os_path_basename(p) == SubSeq(p, LastSlash(p) + 1, Len(p))

\* dirpath / 'secretfiles'
SecretfilesDir(dirpath) == PathJoin(dirpath, <<"s","e","c","r","e","t","f","i","l","e","s">>)

\* the readable local files: the file entries under dirpath / 'secretfiles'
LocalPaths(f) ==
    {PathJoin(SecretfilesDir(f.dirpath), Join(f.tree[i].rel)) :
        i \in {j \in DOMAIN f.tree : ~f.tree[j].isDir}}

\* open(local_filepath, 'r').read()
ReadFile(f, local_path) ==
    LET i == CHOOSE j \in DOMAIN f.tree :
                /\ ~f.tree[j].isDir
                /\ PathJoin(SecretfilesDir(f.dirpath), Join(f.tree[j].rel)) = local_path
    IN  f.tree[i].contents

RECURSIVE SecretContents(_, _, _)
\* the loop of _set_files_as_secret: secret_contents[filename] = contents
SecretContents(f, file_metas, acc) ==
    IF file_metas = <<>> THEN acc
    ELSE SecretContents(f, Tail(file_metas),
            Put(acc, Head(file_metas).filename, ReadFile(f, Head(file_metas).local_path)))

NoSync == [remote |-> EmptyDoc, calls |-> <<>>, raised |-> TRUE]

\* _set_files_as_secret(namespace, env, remote_dir, file_metas)
_set_files_as_secret(rem, f, namespace, env, remote_dir, file_metas, renderOut, applyOut) ==
    IF remote_dir = <<>>
    THEN [NoSync EXCEPT !.remote = rem]
    ELSE _set_secret_multi_cmd(rem, namespace, make_mntsecret_name(env, remote_dir),
            SecretContents(f, file_metas, EmptyDoc), renderOut, applyOut)

\* _set_file_as_secret(namespace, env, remote_filepath, local_filepath)
_set_file_as_secret(rem, f, namespace, env, remote_filepath, local_filepath, renderOut, applyOut) ==
    _set_files_as_secret(rem, f, namespace, env, os_path_dirname(remote_filepath),
        <<[filename |-> os_path_basename(remote_filepath), local_path |-> local_filepath]>>,
        renderOut, applyOut)

(***************************************************************************)
(* Inputs: environment directories, config values, local trees             *)
(***************************************************************************)
MaxFiles == 2

Dev == <<"d","e","v">>
NsConfigured == <<"n","s">>
NsAnswered == <<"n","2">>
PullDev == <<"p","u","l","l","-","d","e","v">>

\* values of --dirpath
Dirs == {<<".">>, <<"e">>}

\* what click.prompt can hand back; the empty answer is the falsy one
Answers == {<<>>, NsAnswered}

\* the answers drawn for a key: none is drawn when the key is set and
\* click.prompt is not reached
AnswersFor(sc, dirpath, key) ==
    IF sc[dirpath].exists /\ key \in DOMAIN sc[dirpath].doc THEN {<<>>} ELSE Answers

FullDoc == [k \in {"envName", "namespace", "imagePullSecret"} |->
              IF k = "envName" THEN Dev ELSE IF k = "namespace" THEN NsConfigured ELSE PullDev]

NoLocals == [fn |-> "none"]

Without(doc, key) == [k \in (DOMAIN doc) \ {key} |-> doc[k]]

Foo == <<"f","o","o">>
FooUpper == <<"F","o","o">>
Conf == <<"c","o","n","f">>
BarTxt == <<"b","a","r",".","t","x","t">>
BazTxt == <<"b","a","z",".","t","x","t">>
AppYaml == <<"a","p","p",".","y","a","m","l">>
Secretfiles == <<"s","e","c","r","e","t","f","i","l","e","s">>

\* regular files that may lie under secretfiles/, by their path relative to it
CandidateFiles ==
    << [rel |-> <<Foo, BarTxt>>, contents |-> "bar"],
       [rel |-> <<Foo, BazTxt>>, contents |-> "baz"],
       [rel |-> <<Conf, AppYaml>>, contents |-> "app"],
       [rel |-> <<BarTxt>>, contents |-> "top"],
       [rel |-> <<FooUpper, BarTxt>>, contents |-> "BAR"],
       [rel |-> <<Foo, Secretfiles, BazTxt>>, contents |-> "deep"] >>

RECURSIVE Walk(_, _)
\* what rglob('*') yields for the given files, in the order given: every
\* directory on the way to a file, then the file
Walk(files, seen) ==
    IF files = <<>> THEN <<>>
    ELSE LET f        == Head(files)
             prefixes == [k \in 1..(Len(f.rel) - 1) |-> SubSeq(f.rel, 1, k)]
             IsNew(d) == d \notin seen
             dirs     == SelectSeq(prefixes, IsNew)
         IN  [i \in 1..Len(dirs) |-> [rel |-> dirs[i], isDir |-> TRUE, contents |-> ""]]
             \o <<[rel |-> f.rel, isDir |-> FALSE, contents |-> f.contents]>>
             \o Walk(Tail(files), seen \cup Range(prefixes))

\* the trees of at most MaxFiles files, in every traversal order
FileOrders ==
    {s \in UNION {[1..n -> DOMAIN CandidateFiles] : n \in 0..MaxFiles} :
        \A i, j \in DOMAIN s : i # j => s[i] # s[j]}

Trees == {Walk([i \in DOMAIN s |-> CandidateFiles[s[i]]], {}) : s \in FileOrders}

NoDotenv == [exists |-> FALSE, lines |-> <<>>]

(***************************************************************************)
(* Single-secret commands: `secrets set-as-envar`, `secrets set`           *)
(***************************************************************************)
NoCall == [fn |-> "none"]

SyncCall(namespace, name, secrets, renderOut, applyOut, s) ==
    [fn |-> "_set_secret_multi_cmd", namespace |-> namespace, name |-> name,
     secrets |-> secrets, render |-> renderOut, apply |-> applyOut,
     applied |-> Len(s.calls) = 2, raised |-> s.raised]

\* set_envvar_cmd(envvar_name, envvar_value) at line 431
SetEnvarCmd(dirpath, envvar_name, envvar_value, answer, renderOut, applyOut) ==
    LET e  == load_wiz_config_key(sidecar, dirpath, "envName")
        n  == load_namespace_from_config(sidecar, EmptyDoc, dirpath, answer)
        nm == make_envsecret_name(e.val, envvar_name)
        s  == _set_secret_cmd(remote, n.val, nm, envvar_value, renderOut, applyOut)
    IN  /\ pc = "idle"
        /\ IF e.raised
           THEN /\ exit' = "error"
                /\ UNCHANGED <<sidecar, remote>>
                /\ calls' = <<>>
                /\ last' = NoCall
           ELSE IF n.raised
           THEN /\ exit' = "error"
                /\ sidecar' = n.sidecar
                /\ UNCHANGED remote
                /\ calls' = <<>>
                /\ last' = NoCall
           ELSE /\ exit' = IF s.raised THEN "error" ELSE "ok"
                /\ sidecar' = n.sidecar
                /\ remote' = s.remote
                /\ calls' = s.calls
                /\ last' = SyncCall(n.val, nm,
                              Put(EmptyDoc, GENERIC_SECRET_FIELD_NAME, envvar_value),
                              renderOut, applyOut, s)
        /\ UNCHANGED <<locals, namespaces, returned, fs, nsCache, prompts, pc, todo>>

\* set_mntsecret(local_filepath, remote_filepath) at line 494
SetMntSecretCmd(dirpath, local_filepath, remote_filepath, answer, renderOut, applyOut) ==
    LET e  == load_wiz_config_key(sidecar, dirpath, "envName")
        n  == load_namespace_from_config(sidecar, EmptyDoc, dirpath, answer)
        rd == os_path_dirname(remote_filepath)
        s  == _set_file_as_secret(remote, fs, n.val, e.val, remote_filepath,
                                  local_filepath, renderOut, applyOut)
    IN  /\ pc = "idle"
        /\ IF e.raised
           THEN /\ exit' = "error"
                /\ UNCHANGED <<sidecar, remote>>
                /\ calls' = <<>>
                /\ last' = NoCall
           ELSE IF n.raised
           THEN /\ exit' = "error"
                /\ sidecar' = n.sidecar
                /\ UNCHANGED remote
                /\ calls' = <<>>
                /\ last' = NoCall
           ELSE /\ exit' = IF s.raised THEN "error" ELSE "ok"
                /\ sidecar' = n.sidecar
                /\ remote' = s.remote
                /\ calls' = s.calls
                /\ last' = IF rd = <<>> THEN NoCall
                           ELSE SyncCall(n.val, make_mntsecret_name(e.val, rd),
                                    Put(EmptyDoc, os_path_basename(remote_filepath),
                                        ReadFile(fs, local_filepath)),
                                    renderOut, applyOut, s)
        /\ UNCHANGED <<locals, namespaces, returned, fs, nsCache, prompts, pc, todo>>

EnvVarArgs == {<<"P","O","R","T">>}
EnvValueArgs == {"1", "2"}
RemotePathArgs == {<<"/","f","o","o","/","a">>, <<"/","f","o","o","/","b">>, <<"a">>}

SyncDocs == {FullDoc, Without(FullDoc, "envName"), Without(FullDoc, "namespace")}

InitSync ==
    /\ last = NoCall
    /\ fs = [dirpath |-> <<"e">>, dotenv |-> NoDotenv,
             tree |-> Walk(SubSeq(CandidateFiles, 1, 2), {})]
    /\ \E doc \in SyncDocs :
          sidecar = [d \in Dirs |-> [exists |-> TRUE, doc |-> doc]]
    /\ nsCache = EmptyDoc
    /\ prompts = [d \in Dirs |-> 0]
    /\ remote = EmptyDoc
    /\ pc = "idle"
    /\ todo = <<>>
    /\ calls = <<>>
    /\ exit = "none"
    /\ locals = NoLocals
    /\ namespaces = {NsConfigured, NsAnswered}
    /\ returned = EmptyDoc

SetEnvar ==
    \E name \in EnvVarArgs, value \in EnvValueArgs,
       answer \in AnswersFor(sidecar, fs.dirpath, "namespace"), ro \in Outcomes :
        \E ao \in ApplyOutcomes(ro) :
            SetEnvarCmd(fs.dirpath, name, value, answer, ro, ao)

SetMntSecret ==
    \E lp \in LocalPaths(fs), rp \in RemotePathArgs,
       answer \in AnswersFor(sidecar, fs.dirpath, "namespace"), ro \in Outcomes :
        \E ao \in ApplyOutcomes(ro) :
            SetMntSecretCmd(fs.dirpath, lp, rp, answer, ro, ao)

NextSync == SetEnvar \/ SetMntSecret

SpecSync == InitSync /\ [][NextSync]_vars

(***************************************************************************)
(* The push command                                                        *)
(***************************************************************************)
Port == <<"P","O","R","T">>

\* .env files: absent, or KEY=VALUE lines in file order
DotenvFiles ==
    { NoDotenv,
      [exists |-> TRUE, lines |-> <<[key |-> Port, value |-> "8080"]>>],
      [exists |-> TRUE, lines |-> <<[key |-> <<"A">>, value |-> "1"],
                                    [key |-> <<"B">>, value |-> "2"]>>],
      [exists |-> TRUE, lines |-> <<[key |-> <<"A">>, value |-> "1"],
                                    [key |-> <<"B">>, value |-> "2"],
                                    [key |-> <<"A">>, value |-> "3"]>>] }

RECURSIVE DictOf(_, _)
\* a dict built from (key, value) pairs: a repeated key keeps its first
\* position and takes the later value
DictOf(lines, acc) ==
    IF lines = <<>> THEN acc
    ELSE LET l == Head(lines)
         IN  DictOf(Tail(lines),
                IF \E i \in DOMAIN acc : acc[i].key = l.key
                THEN [i \in DOMAIN acc |-> IF acc[i].key = l.key THEN l ELSE acc[i]]
                ELSE Append(acc, l))

\* every KEY=VALUE line kept as an entry of its own, repeated keys included
DotenvKeepsEveryLine(dotenv) == IF dotenv.exists THEN dotenv.lines ELSE <<>>

\* dotenv_values(dotenv_file): a missing file gives the empty dict
dotenv_values(dotenv) == IF dotenv.exists THEN DictOf(dotenv.lines, <<>>) ELSE <<>>

\* the calls wiz_push makes after loading its config, in order: one
\* _set_secret_cmd per .env key (_push_envfile), then one _set_files_as_secret
\* per scanned group
PushWork(f, namespace, env) ==
    LET vals   == dotenv_values(f.dotenv)
        groups == _get_file_metas(SecretfilesDir(f.dirpath), f.tree)
    IN  [i \in DOMAIN vals |->
            [kind |-> "env", namespace |-> namespace, env |-> env,
             envvar_name |-> vals[i].key, envvar_value |-> vals[i].value]]
        \o
        [i \in DOMAIN groups |->
            [kind |-> "files", namespace |-> namespace, env |-> env,
             remote_dir |-> groups[i].key, file_metas |-> groups[i].metas]]

\* wiz_push up to its first secret: the config is loaded, the work laid out
PushStart(answer) ==
    LET e == load_wiz_config_key(sidecar, fs.dirpath, "envName")
        n == load_namespace_from_config(sidecar, EmptyDoc, fs.dirpath, answer)
        w == PushWork(fs, n.val, e.val)
    IN  /\ pc = "idle"
        /\ calls' = <<>>
        /\ last' = NoCall
        /\ IF e.raised
           THEN /\ pc' = "done"
                /\ exit' = "error"
                /\ UNCHANGED <<sidecar, todo>>
           ELSE IF n.raised
           THEN /\ pc' = "done"
                /\ exit' = "error"
                /\ UNCHANGED <<sidecar, todo>>
           ELSE /\ sidecar' = n.sidecar
                /\ todo' = w
                /\ pc' = IF w = <<>> THEN "done" ELSE "push"
                /\ exit' = IF w = <<>> THEN "ok" ELSE "none"
        /\ UNCHANGED <<locals, namespaces, returned, fs, nsCache, prompts, remote>>

\* the secret one piece of work syncs: its name and its contents
WorkName(w) ==
    IF w.kind = "env" THEN make_envsecret_name(w.env, w.envvar_name)
    ELSE make_mntsecret_name(w.env, w.remote_dir)

WorkSecrets(w) ==
    IF w.kind = "env" THEN Put(EmptyDoc, GENERIC_SECRET_FIELD_NAME, w.envvar_value)
    ELSE SecretContents(fs, w.file_metas, EmptyDoc)

\* the next iteration of wiz_push's loops; an exception ends the command,
\* and so does the end of the work
PushNext(renderOut, applyOut) ==
    LET w == Head(todo)
        s == IF w.kind = "env"
             THEN _set_secret_cmd(remote, w.namespace,
                      make_envsecret_name(w.env, w.envvar_name), w.envvar_value,
                      renderOut, applyOut)
             ELSE _set_files_as_secret(remote, fs, w.namespace, w.env, w.remote_dir,
                      w.file_metas, renderOut, applyOut)
    IN  /\ pc = "push"
        /\ todo # <<>>
        /\ remote' = s.remote
        /\ calls' = calls \o s.calls
        /\ last' = IF s.calls = <<>> THEN NoCall
                   ELSE SyncCall(w.namespace, WorkName(w), WorkSecrets(w),
                                 renderOut, applyOut, s)
        /\ IF s.raised
           THEN /\ pc' = "done"
                /\ exit' = "error"
                /\ UNCHANGED todo
           ELSE /\ todo' = Tail(todo)
                /\ pc' = IF Tail(todo) = <<>> THEN "done" ELSE "push"
                /\ exit' = IF Tail(todo) = <<>> THEN "ok" ELSE "none"
        /\ UNCHANGED <<locals, namespaces, returned, fs, sidecar, nsCache, prompts>>

PushDocs == {FullDoc, Without(FullDoc, "envName")}

InitPush ==
    /\ last = NoCall
    /\ \E d \in Dirs, dotenv \in DotenvFiles, tree \in Trees :
          fs = [dirpath |-> d, dotenv |-> dotenv, tree |-> tree]
    /\ \E doc \in PushDocs :
          sidecar = [d \in Dirs |-> [exists |-> TRUE, doc |-> doc]]
    /\ nsCache = EmptyDoc
    /\ prompts = [d \in Dirs |-> 0]
    /\ remote = EmptyDoc
    /\ pc = "idle"
    /\ todo = <<>>
    /\ calls = <<>>
    /\ exit = "none"
    /\ locals = NoLocals
    /\ namespaces = {NsConfigured, NsAnswered}
    /\ returned = EmptyDoc

WizPushStart == \E answer \in AnswersFor(sidecar, fs.dirpath, "namespace") : PushStart(answer)

WizPushNext == \E ro \in Outcomes : \E ao \in ApplyOutcomes(ro) : PushNext(ro, ao)

NextPush == WizPushStart \/ WizPushNext

SpecPush == InitPush /\ [][NextPush]_vars


(***************************************************************************)
(* The naming functions on drawn strings                                   *)
(***************************************************************************)
MaxNameLen == 2

NameChars == {"A", "b", "_", "+", "/", "1"}

NameArgs == UNION {[1..n -> NameChars] : n \in 0..MaxNameLen}

EnvArgs == {<<>>, Dev}

InitNames ==
    /\ \E env \in EnvArgs, arg \in NameArgs :
          last = [fn |-> "input", env |-> env, arg |-> arg]
    /\ fs = [dirpath |-> <<".">>, dotenv |-> NoDotenv, tree |-> <<>>]
    /\ sidecar = [d \in Dirs |-> [exists |-> FALSE, doc |-> EmptyDoc]]
    /\ nsCache = EmptyDoc
    /\ prompts = [d \in Dirs |-> 0]
    /\ remote = EmptyDoc
    /\ pc = "idle"
    /\ todo = <<>>
    /\ calls = <<>>
    /\ exit = "none"
    /\ locals = NoLocals
    /\ namespaces = {NsConfigured, NsAnswered}
    /\ returned = EmptyDoc

CallEnvsecretName ==
    /\ last' = [fn |-> "make_envsecret_name", env |-> last.env, arg |-> last.arg,
                ret |-> make_envsecret_name(last.env, last.arg)]
    /\ UNCHANGED <<locals, namespaces, returned, fs, sidecar, nsCache, prompts, remote, pc, todo, calls, exit>>

CallMntsecretName ==
    /\ last' = [fn |-> "make_mntsecret_name", env |-> last.env, arg |-> last.arg,
                ret |-> make_mntsecret_name(last.env, last.arg)]
    /\ UNCHANGED <<locals, namespaces, returned, fs, sidecar, nsCache, prompts, remote, pc, todo, calls, exit>>

CallReleaseName ==
    /\ last' = [fn |-> "make_release_name", env |-> last.env, arg |-> last.arg,
                ret |-> make_release_name(last.arg, last.env)]
    /\ UNCHANGED <<locals, namespaces, returned, fs, sidecar, nsCache, prompts, remote, pc, todo, calls, exit>>

\* the slug expression of make_mntsecret_name (lines 148-149), applied to a
\* string and then to its own output
CallSlug ==
    /\ last' = [fn |-> "slug", env |-> last.env, arg |-> last.arg,
                ret |-> Slug(last.arg), again |-> Slug(Slug(last.arg))]
    /\ UNCHANGED <<locals, namespaces, returned, fs, sidecar, nsCache, prompts, remote, pc, todo, calls, exit>>

NextNames == CallEnvsecretName \/ CallMntsecretName \/ CallReleaseName \/ CallSlug

SpecNames == InitNames /\ [][NextNames]_vars

(***************************************************************************)
(* Scanning and values assembly on a drawn environment directory           *)
(***************************************************************************)
\* _wiz_genvalues(dirpath)
_wiz_genvalues(sc, f) ==
    LET e      == load_wiz_config_key(sc, f.dirpath, "envName")
        p      == load_wiz_config_key(sc, f.dirpath, "imagePullSecret")
        vals   == dotenv_values(f.dotenv)
        groups == _get_file_metas(SecretfilesDir(f.dirpath), f.tree)
        data   == [i \in DOMAIN groups |-> make_mntsecret_volume_data(e.val, groups[i].key)]
    IN  IF e.raised \/ p.raised
        THEN [raised |-> TRUE]
        ELSE [raised |-> FALSE,
              values |->
                [env              |-> [i \in DOMAIN vals |-> make_envsecret(e.val, vals[i].key)],
                 volumes          |-> [i \in DOMAIN data |-> data[i].vol],
                 volumeMounts     |-> [i \in DOMAIN data |-> data[i].vol_mnt],
                 imagePullSecrets |-> <<[name |-> p.val]>>]]

ScanDocs == {FullDoc, Without(FullDoc, "envName"), Without(FullDoc, "imagePullSecret")}

InitScan ==
    /\ last = NoCall
    /\ \E d \in Dirs, dotenv \in DotenvFiles, tree \in Trees :
          fs = [dirpath |-> d, dotenv |-> dotenv, tree |-> tree]
    /\ \E doc \in ScanDocs :
          sidecar = [d \in Dirs |-> [exists |-> TRUE, doc |-> doc]]
    /\ nsCache = EmptyDoc
    /\ prompts = [d \in Dirs |-> 0]
    /\ remote = EmptyDoc
    /\ pc = "idle"
    /\ todo = <<>>
    /\ calls = <<>>
    /\ exit = "none"
    /\ locals = NoLocals
    /\ namespaces = {NsConfigured, NsAnswered}
    /\ returned = EmptyDoc

\* a call of _get_file_metas(dirpath / 'secretfiles')
Scan ==
    /\ last' = [fn |-> "_get_file_metas",
                ret |-> _get_file_metas(SecretfilesDir(fs.dirpath), fs.tree)]
    /\ UNCHANGED <<locals, namespaces, returned, fs, sidecar, nsCache, prompts, remote, pc, todo, calls, exit>>

\* the genvalues command
WizGenvalues ==
    LET r == _wiz_genvalues(sidecar, fs)
    IN  /\ last' = IF r.raised THEN [fn |-> "_wiz_genvalues", raised |-> TRUE]
                   ELSE [fn |-> "_wiz_genvalues", raised |-> FALSE, ret |-> r.values]
        /\ exit' = IF r.raised THEN "error" ELSE "ok"
        /\ UNCHANGED <<locals, namespaces, returned, fs, sidecar, nsCache, prompts, remote, pc, todo, calls>>

NextScan == Scan \/ WizGenvalues

SpecScan == InitScan /\ [][NextScan]_vars


(***************************************************************************)
(* The config store and the setup command within one process               *)
(***************************************************************************)
PromptCap == 2

NsOther == <<"n","3">>

NsAnswers == {<<>>, NsAnswered, NsOther}

\* the namespace `kubectl get secret <name>` looks in when none is given
KubectlContextNamespace == <<"d","e","f","a","u","l","t">>

\* random.choices(ascii_lowercase + digits, k=5)
RandStrs == {<<"a","b","c","1","2">>}

RegistrySecret == Put(EmptyDoc, <<"s","e","r","v","e","r">>, "{hostname}")

\* the documents an environment directory may hold when a process starts;
\* "owner" is a key the code does not know
Owner == <<"m","e">>

ConfigDocs ==
    { [k \in {"owner"} |-> Owner],
      [k \in {"owner", "envName"} |-> IF k = "owner" THEN Owner ELSE Dev],
      [k \in {"owner", "namespace"} |-> IF k = "owner" THEN Owner ELSE NsConfigured],
      FullDoc }

ConfigKeys == {"namespace", "envName", "imagePullSecret"}

\* what `kubectl get <type> <name>` under subprocess.run(timeout=30) comes
\* back with: exit 0, "Error from server (NotFound)" on stderr, another
\* non-zero exit, or no answer within the timeout
ProbeResponses == {"found", "notfound", "error", "timeout"}

\* the cluster's side of the probe: it answers by what it holds, or breaks
KubectlGet(extant, probe) ==
    IF probe = "ok" THEN (IF extant THEN "found" ELSE "notfound") ELSE probe

\* the probe taking every non-zero exit for an absent item
IsExtantErrorsAsAbsent(response) ==
    IF response = "found" THEN [raised |-> FALSE, val |-> TRUE]
    ELSE [raised |-> response = "timeout", val |-> FALSE]

\* _is_extant_k8s_item(item_type, item_name), and _is_extant_secret with the
\* same body, on the response of the probe
_is_extant_k8s_item(response) ==
    IF response = "found" THEN [raised |-> FALSE, val |-> TRUE]
    ELSE IF response = "notfound" THEN [raised |-> FALSE, val |-> FALSE]
    ELSE [raised |-> TRUE, val |-> FALSE]

\* the process is running and no exception has ended it
Alive == pc \in {"idle", "done"} /\ exit # "error"

Count(n, prompted) == IF prompted /\ n < PromptCap THEN n + 1 ELSE n

\* a call of load_namespace_from_config(dirpath)
ResolveNamespace(dirpath, answer) ==
    LET r == load_namespace_from_config(sidecar, nsCache, dirpath, answer)
    IN  /\ Alive
        /\ sidecar' = r.sidecar
        /\ nsCache' = r.cache
        /\ prompts' = [prompts EXCEPT ![dirpath] = Count(@, r.prompted)]
        /\ returned' = IF r.raised \/ dirpath \in DOMAIN returned THEN returned
                       ELSE Put(returned, dirpath, r.val)
        /\ last' = [fn |-> "load_namespace_from_config", dirpath |-> dirpath,
                    raised |-> r.raised, ret |-> r.val, prompted |-> r.prompted,
                    repeat |-> dirpath \in DOMAIN returned]
        /\ exit' = IF r.raised THEN "error" ELSE exit
        /\ UNCHANGED <<fs, remote, pc, todo, calls, locals, namespaces>>

\* a call of load_wiz_config_key_or_prompt(dirpath, key)
GetOrElicit(dirpath, key, answer) ==
    LET r == load_wiz_config_key_or_prompt(sidecar, dirpath, key, answer)
    IN  /\ Alive
        /\ sidecar' = r.sidecar
        /\ last' = [fn |-> "load_wiz_config_key_or_prompt", dirpath |-> dirpath,
                    key |-> key, answer |-> answer, file |-> sidecar[dirpath],
                    before |-> load_wiz_config(sidecar, dirpath),
                    raised |-> r.raised, ret |-> r.val, prompted |-> r.prompted]
        /\ exit' = IF r.raised THEN "error" ELSE exit
        /\ UNCHANGED <<fs, nsCache, prompts, returned, remote, pc, todo, calls,
                       locals, namespaces>>

\* wiz_setup, lines 526-534: the config is loaded, the namespace resolved
\* and created when the cluster does not have it
SetupNamespace(dirpath, answer, probe, create) ==
    LET config == load_wiz_config(sidecar, dirpath)
        n      == load_namespace_from_config(sidecar, nsCache, dirpath, answer)
        r      == _is_extant_k8s_item(KubectlGet(n.val \in namespaces, probe))
        extant == r.val
        get    == [op |-> "get namespace", name |-> n.val, outcome |-> probe]
        mk     == [op |-> "create namespace", name |-> n.val, outcome |-> create]
        failed == n.raised \/ r.raised \/ (~extant /\ create # "ok")
    IN  /\ pc = "idle"
        /\ exit # "error"
        /\ sidecar' = n.sidecar
        /\ nsCache' = n.cache
        /\ prompts' = [prompts EXCEPT ![dirpath] = Count(@, n.prompted)]
        /\ returned' = IF n.raised \/ dirpath \in DOMAIN returned THEN returned
                       ELSE Put(returned, dirpath, n.val)
        /\ calls' = IF n.raised THEN <<>>
                    ELSE IF r.raised \/ extant THEN <<get>>
                    ELSE <<get, mk>>
        /\ namespaces' = IF failed \/ extant THEN namespaces ELSE namespaces \cup {n.val}
        /\ locals' = [fn |-> "wiz_setup", dirpath |-> dirpath, start |-> config,
                      config |-> config, namespace |-> n.val]
        /\ last' = [fn |-> "wiz_setup"]
        /\ pc' = IF failed THEN "done" ELSE "setup_env"
        /\ exit' = IF failed THEN "error" ELSE "none"
        /\ UNCHANGED <<fs, remote, todo>>

Falsy(config, key) == key \notin DOMAIN config \/ config[key] = <<>>

\* wiz_setup, lines 536-543: envName is prompted for and persisted when the
\* loaded config has none
SetupEnvName(answer) ==
    LET config == locals.config
        new    == Put(config, "envName", answer)
    IN  /\ pc = "setup_env"
        /\ last' = [fn |-> "wiz_setup"]
        /\ IF ~Falsy(config, "envName")
           THEN /\ locals' = [fn |-> "wiz_setup", dirpath |-> locals.dirpath,
                              start |-> locals.start, config |-> config,
                              namespace |-> locals.namespace, env |-> config["envName"]]
                /\ pc' = "setup_pull"
                /\ UNCHANGED <<sidecar, exit>>
           ELSE IF answer = <<>>
           THEN /\ pc' = "done"
                /\ exit' = "error"
                /\ UNCHANGED <<sidecar, locals>>
           ELSE /\ locals' = [fn |-> "wiz_setup", dirpath |-> locals.dirpath,
                              start |-> locals.start, config |-> new,
                              namespace |-> locals.namespace, env |-> answer]
                /\ sidecar' = write_wiz_config(sidecar, locals.dirpath, new)
                /\ pc' = "setup_pull"
                /\ UNCHANGED exit
        /\ UNCHANGED <<fs, nsCache, prompts, returned, remote, todo, calls, namespaces>>

\* wiz_setup, lines 546-553: a name for the image pull secret is made up and
\* persisted when the loaded config has none
SetupImagePullSecret(randstr) ==
    LET config == locals.config
        name   == <<"w","i","z","-","s","e","t","u","p","-","i","m","a","g","e",
                    "p","u","l","l","s","e","c","r","e","t","-">>
                  \o locals.env \o <<"-">> \o randstr
        new    == Put(config, "imagePullSecret", name)
    IN  /\ pc = "setup_pull"
        /\ last' = [fn |-> "wiz_setup"]
        /\ pc' = "setup_secret"
        /\ IF ~Falsy(config, "imagePullSecret")
           THEN /\ locals' = [locals EXCEPT !.config = config]
                /\ UNCHANGED sidecar
           ELSE /\ locals' = [locals EXCEPT !.config = new]
                /\ sidecar' = write_wiz_config(sidecar, locals.dirpath, new)
        /\ UNCHANGED <<fs, nsCache, prompts, returned, remote, todo, calls, namespaces, exit>>

\* wiz_setup, lines 555-564: the registry secret is created when the probe
\* does not find it; the probe names no namespace and so looks in the
\* namespace of the kubectl context, the creation names the resolved one
SetupRegistrySecret(probe, create) ==
    LET name   == locals.config["imagePullSecret"]
        r      == _is_extant_k8s_item(
                     KubectlGet(<<KubectlContextNamespace, name>> \in DOMAIN remote, probe))
        extant == r.val
        get    == [op |-> "get secret", name |-> name, outcome |-> probe]
        mk     == [op |-> "create secret docker-registry", name |-> name, outcome |-> create]
        failed == r.raised \/ (~extant /\ create # "ok")
    IN  /\ pc = "setup_secret"
        /\ last' = [fn |-> "wiz_setup", name |-> name, probed |-> ~r.raised,
                    existed |-> <<locals.namespace, name>> \in DOMAIN remote]
        /\ calls' = calls \o (IF r.raised \/ extant THEN <<get>> ELSE <<get, mk>>)
        /\ remote' = IF failed \/ extant THEN remote
                     ELSE Put(remote, <<locals.namespace, name>>, RegistrySecret)
        /\ pc' = "done"
        /\ exit' = IF failed THEN "error" ELSE "ok"
        /\ UNCHANGED <<fs, sidecar, nsCache, prompts, returned, todo, locals, namespaces>>

\* the process ends and the next one starts: nothing in memory survives
NewProcess ==
    /\ pc = "done"
    /\ pc' = "idle"
    /\ exit' = "none"
    /\ nsCache' = EmptyDoc
    /\ prompts' = [d \in Dirs |-> 0]
    /\ returned' = EmptyDoc
    /\ locals' = NoLocals
    /\ calls' = <<>>
    /\ last' = [fn |-> "exit"]
    /\ UNCHANGED <<fs, sidecar, remote, todo, namespaces>>

InitConfig ==
    /\ last = NoCall
    /\ fs = [dirpath |-> <<"e">>, dotenv |-> NoDotenv, tree |-> <<>>]
    /\ \E doc \in ConfigDocs \cup {EmptyDoc} :
          sidecar = [d \in Dirs |->
                       IF d = fs.dirpath THEN [exists |-> doc # EmptyDoc, doc |-> doc]
                       ELSE [exists |-> FALSE, doc |-> EmptyDoc]]
    /\ nsCache = EmptyDoc
    /\ prompts = [d \in Dirs |-> 0]
    /\ remote = EmptyDoc
    /\ pc = "idle"
    /\ todo = <<>>
    /\ calls = <<>>
    /\ exit = "none"
    /\ locals = NoLocals
    /\ namespaces = {}
    /\ returned = EmptyDoc

\* the probe of _is_extant_k8s_item answers (found or not found) or breaks
ProbeOutcomes == {"ok", "error"}

\* check_call of exec: exit 0 or CalledProcessError
ExecOutcomes == {"ok", "nonzero"}

CallResolveNamespace ==
    \E d \in Dirs :
        \E answer \in (IF d \in DOMAIN nsCache THEN {<<>>}
                       ELSE IF "namespace" \in DOMAIN load_wiz_config(sidecar, d) THEN {<<>>}
                       ELSE NsAnswers) :
            ResolveNamespace(d, answer)

CallGetOrElicit ==
    \E d \in Dirs, key \in ConfigKeys :
        \E answer \in AnswersFor(sidecar, d, key) :
            GetOrElicit(d, key, answer)

WizSetupNamespace ==
    \E answer \in (IF fs.dirpath \in DOMAIN nsCache THEN {<<>>}
                   ELSE AnswersFor(sidecar, fs.dirpath, "namespace")),
       probe \in ProbeOutcomes, create \in ExecOutcomes :
        SetupNamespace(fs.dirpath, answer, probe, create)

WizSetupEnvName ==
    /\ pc = "setup_env"
    /\ \E answer \in (IF Falsy(locals.config, "envName") THEN {<<>>, Dev} ELSE {<<>>}) :
          SetupEnvName(answer)

WizSetupImagePullSecret == \E randstr \in RandStrs : SetupImagePullSecret(randstr)

\* `kubectl create secret` on a name the namespace already holds exits
\* non-zero (AlreadyExists)
CreateSecretOutcomes(rem, namespace, name) ==
    IF <<namespace, name>> \in DOMAIN rem THEN {"nonzero"} ELSE ExecOutcomes

WizSetupRegistrySecret ==
    /\ pc = "setup_secret"
    /\ \E probe \in ProbeOutcomes,
          create \in CreateSecretOutcomes(remote, locals.namespace,
                                          locals.config["imagePullSecret"]) :
          SetupRegistrySecret(probe, create)

NextConfig ==
    \/ CallResolveNamespace
    \/ CallGetOrElicit
    \/ WizSetupNamespace
    \/ WizSetupEnvName
    \/ WizSetupImagePullSecret
    \/ WizSetupRegistrySecret
    \/ NewProcess

SpecConfig == InitConfig /\ [][NextConfig]_vars


(***************************************************************************)
(* The deploy command: a helm release of the generated values              *)
(***************************************************************************)
App == <<"a","p","p">>

\* what the walk of _get_helm_chart_dir finds above the environment
\* directory: no Chart.yaml up to the root (None), or a chart and its name
Charts == {[found |-> FALSE, name |-> <<>>], [found |-> TRUE, name |-> App]}

\* _get_helm_chart_name(dirpath): None / "Chart.yaml" raises when the walk
\* found no chart
_get_helm_chart_name(chart) ==
    IF chart.found THEN [raised |-> FALSE, val |-> chart.name]
    ELSE [raised |-> TRUE, val |-> <<>>]

ImageArgs == {"img:1"}

ReleaseDocs ==
    {FullDoc, Without(FullDoc, "envName"), Without(FullDoc, "namespace"),
     Without(FullDoc, "imagePullSecret")}

InitRelease ==
    /\ last = NoCall
    /\ \E d \in Dirs, dotenv \in DotenvFiles, tree \in Trees, chart \in Charts :
          fs = [dirpath |-> d, dotenv |-> dotenv, tree |-> tree, chart |-> chart]
    /\ \E doc \in ReleaseDocs :
          sidecar = [d \in Dirs |-> [exists |-> TRUE, doc |-> doc]]
    /\ nsCache = EmptyDoc
    /\ prompts = [d \in Dirs |-> 0]
    /\ remote = EmptyDoc
    /\ pc = "idle"
    /\ todo = <<>>
    /\ calls = <<>>
    /\ exit = "none"
    /\ locals = NoLocals
    /\ namespaces = {}
    /\ returned = EmptyDoc

\* _release_create(image), lines 235-245: everything before the first helm
\* call; an exception of any of the loads ends the command
ReleaseStart(image, answer) ==
    LET v  == _wiz_genvalues(sidecar, fs)
        n  == load_namespace_from_config(sidecar, nsCache, fs.dirpath, answer)
        e  == load_wiz_config_key(n.sidecar, fs.dirpath, "envName")
        c  == _get_helm_chart_name(fs.chart)
        raised == v.raised \/ n.raised \/ e.raised \/ c.raised
    IN  /\ pc = "idle"
        /\ calls' = <<>>
        /\ last' = [fn |-> "_release_create", image |-> image]
        /\ sidecar' = IF v.raised THEN sidecar ELSE n.sidecar
        /\ nsCache' = IF v.raised THEN nsCache ELSE n.cache
        /\ IF raised
           THEN /\ pc' = "done"
                /\ exit' = "error"
                /\ UNCHANGED locals
           ELSE /\ pc' = "helm_dependency_update"
                /\ exit' = "none"
                /\ locals' = [fn |-> "_release_create", image |-> image,
                              values |-> v.values, namespace |-> n.val,
                              release_name |-> make_release_name(c.val, e.val)]
        /\ UNCHANGED <<fs, prompts, returned, remote, todo, namespaces>>

\* exec("helm", "dependency", "update", ...) continuing whatever helm reports
HelmDependencyUpdateUnchecked(outcome) ==
    /\ pc = "helm_dependency_update"
    /\ calls' = Append(calls, [op |-> "helm dependency update",
                               name |-> locals.release_name, outcome |-> outcome])
    /\ pc' = "helm_upgrade"
    /\ exit' = "none"
    /\ UNCHANGED <<last, fs, sidecar, nsCache, prompts, returned, remote, todo,
                   locals, namespaces>>

\* lines 246-248: exec("helm", "dependency", "update", ...); check_call
\* raises CalledProcessError on a non-zero exit
HelmDependencyUpdate(outcome) ==
    /\ pc = "helm_dependency_update"
    /\ calls' = Append(calls, [op |-> "helm dependency update",
                               name |-> locals.release_name, outcome |-> outcome])
    /\ pc' = IF outcome = "ok" THEN "helm_upgrade" ELSE "done"
    /\ exit' = IF outcome = "ok" THEN "none" ELSE "error"
    /\ UNCHANGED <<last, fs, sidecar, nsCache, prompts, returned, remote, todo,
                   locals, namespaces>>

\* lines 250-262: exec("helm", "upgrade", "--create-namespace", "--install",
\* ...) with the values written to a temporary file
HelmUpgrade(outcome) ==
    /\ pc = "helm_upgrade"
    /\ calls' = Append(calls, [op |-> "helm upgrade --install",
                               name |-> locals.release_name, outcome |-> outcome])
    /\ namespaces' = IF outcome = "ok" THEN namespaces \cup {locals.namespace}
                     ELSE namespaces
    /\ pc' = "done"
    /\ exit' = IF outcome = "ok" THEN "ok" ELSE "error"
    /\ UNCHANGED <<last, fs, sidecar, nsCache, prompts, returned, remote, todo, locals>>

WizDeploy ==
    \E image \in ImageArgs, answer \in AnswersFor(sidecar, fs.dirpath, "namespace") :
        ReleaseStart(image, answer)

ExecHelmDependencyUpdate == \E outcome \in ExecOutcomes : HelmDependencyUpdate(outcome)

ExecHelmUpgrade == \E outcome \in ExecOutcomes : HelmUpgrade(outcome)

NextRelease == WizDeploy \/ ExecHelmDependencyUpdate \/ ExecHelmUpgrade

SpecRelease == InitRelease /\ [][NextRelease]_vars


(***************************************************************************)
(* The existence probe against a drawn cluster                             *)
(***************************************************************************)
InitProbe ==
    /\ last = NoCall
    /\ fs = [dirpath |-> <<".">>, dotenv |-> NoDotenv, tree |-> <<>>]
    /\ sidecar = [d \in Dirs |-> [exists |-> TRUE, doc |-> FullDoc]]
    /\ nsCache = EmptyDoc
    /\ prompts = [d \in Dirs |-> 0]
    /\ \E held \in SUBSET {<<KubectlContextNamespace, PullDev>>, <<NsConfigured, PullDev>>} :
          remote = [k \in held |-> RegistrySecret]
    /\ pc = "idle"
    /\ todo = <<>>
    /\ calls = <<>>
    /\ exit = "none"
    /\ locals = NoLocals
    /\ namespaces \in SUBSET {NsConfigured, NsAnswered}
    /\ returned = EmptyDoc

\* a call of the probe: what the cluster answers, what the function does
IsExtant(item_type, item_name, extant, probe) ==
    LET response == KubectlGet(extant, probe)
        r        == _is_extant_k8s_item(response)
    IN  /\ last' = IF r.raised
                   THEN [fn |-> "_is_extant_k8s_item", item_type |-> item_type,
                         item_name |-> item_name, response |-> response, raised |-> TRUE]
                   ELSE [fn |-> "_is_extant_k8s_item", item_type |-> item_type,
                         item_name |-> item_name, response |-> response, raised |-> FALSE,
                         ret |-> r.val]
        /\ calls' = <<[op |-> "get " \o item_type, name |-> item_name, outcome |-> probe]>>
        /\ exit' = IF r.raised THEN "error" ELSE "ok"
        /\ UNCHANGED <<fs, sidecar, nsCache, prompts, remote, pc, todo, locals,
                       namespaces, returned>>

ProbeNames == {NsConfigured, NsAnswered, PullDev}

\* _is_extant_k8s_item("namespace", name), as wiz_setup calls it
CallIsExtantNamespace ==
    \E name \in ProbeNames, probe \in ProbeOutcomes \cup {"timeout"} :
        IsExtant("namespace", name, name \in namespaces, probe)

\* _is_extant_secret(name): `kubectl get secret <name>` in the namespace of
\* the kubectl context
CallIsExtantSecret ==
    \E name \in ProbeNames, probe \in ProbeOutcomes \cup {"timeout"} :
        IsExtant("secret", name, <<KubectlContextNamespace, name>> \in DOMAIN remote, probe)

NextProbe == CallIsExtantNamespace \/ CallIsExtantSecret

SpecProbe == InitProbe /\ [][NextProbe]_vars


\* C1: after _set_secret_multi_cmd returns without raising, the secret of
\* that name exists in that namespace and its contents equal the desired map
C1_SyncedEqualsDesired ==
    (last.fn = "_set_secret_multi_cmd" /\ ~last.raised) =>
        /\ <<last.namespace, last.name>> \in DOMAIN remote
        /\ remote[<<last.namespace, last.name>>] = last.secrets

\* C2: a sync whose apply step the collaborator rejected (non-zero) fails:
\* it raises to its caller and the command does not end as a success
C2_RejectedApplyFails ==
    (last.fn = "_set_secret_multi_cmd" /\ last.applied /\ last.apply = "nonzero") =>
        (last.raised /\ exit = "error")

\* C3: in a push run no collaborator call follows a failed one (so apply is
\* never invoked after a failed render, nor a later secret synced after a
\* failed one), and a run with a failed call ends with a non-zero outcome
C3_FailureAbortsPush ==
    /\ \A i \in DOMAIN calls : calls[i].outcome # "ok" => i = Len(calls)
    /\ (pc = "done" /\ \E i \in DOMAIN calls : calls[i].outcome # "ok") => exit = "error"

\* the files lying directly in secretfiles/
RootFiles == {i \in DOMAIN fs.tree : ~fs.tree[i].isDir /\ Len(fs.tree[i].rel) = 1}

\* C4: when secretfiles/ holds a file directly at its root, the scan yields
\* a group with the empty remote directory, and a finished push has failed
\* without a collaborator call for the secret of the group holding that file
C4_RootFileRejected ==
    LET groups == _get_file_metas(SecretfilesDir(fs.dirpath), fs.tree)
        holds(g, i) == \E m \in DOMAIN groups[g].metas :
                          groups[g].metas[m].filename = fs.tree[i].rel[1]
                          /\ groups[g].metas[m].local_path =
                               PathJoin(SecretfilesDir(fs.dirpath), Join(fs.tree[i].rel))
    IN  (pc = "done" /\ RootFiles # {} /\ "envName" \in DOMAIN sidecar[fs.dirpath].doc) =>
            /\ \E g \in DOMAIN groups : groups[g].key = <<>>
            /\ exit = "error"
            /\ \A i \in RootFiles : \A g \in DOMAIN groups :
                  holds(g, i) =>
                     \A c \in DOMAIN calls :
                        calls[c].name # make_mntsecret_name(Dev, groups[g].key)

\* the regular files of the drawn tree, by index, and their scan metadata
TreeFiles == {i \in DOMAIN fs.tree : ~fs.tree[i].isDir}

RelParent(i) == Join(SubSeq(fs.tree[i].rel, 1, Len(fs.tree[i].rel) - 1))

MetaOf(i) ==
    [filename   |-> fs.tree[i].rel[Len(fs.tree[i].rel)],
     local_path |-> PathJoin(SecretfilesDir(fs.dirpath), Join(fs.tree[i].rel))]

InGroup(groups, g, i) == \E m \in DOMAIN groups[g].metas : groups[g].metas[m] = MetaOf(i)

\* C5: the scan puts every regular file, and no directory, in exactly one
\* group, with filename = basename and localPath = full path, and two files
\* share a group exactly when their parent paths relative to the scanned
\* root are the same string
C5_ScanGroupsByRelativeParent ==
    last.fn = "_get_file_metas" =>
        LET groups == last.ret
        IN  /\ \A i \in TreeFiles :
                  \E g \in DOMAIN groups :
                     /\ InGroup(groups, g, i)
                     /\ \A h \in DOMAIN groups : InGroup(groups, h, i) => h = g
            /\ \A g \in DOMAIN groups : \A m \in DOMAIN groups[g].metas :
                  \E i \in TreeFiles : groups[g].metas[m] = MetaOf(i)
            /\ \A i, j \in TreeFiles :
                  (\E g \in DOMAIN groups : InGroup(groups, g, i) /\ InGroup(groups, g, j))
                     <=> RelParent(i) = RelParent(j)

\* the end-to-end input of the spec: env "dev", pull secret "pull-dev",
\* .env {PORT=8080}, one file conf/app.yaml
EndToEndInput ==
    /\ sidecar[fs.dirpath].doc = FullDoc
    /\ fs.dotenv = [exists |-> TRUE, lines |-> <<[key |-> Port, value |-> "8080"]>>]
    /\ {fs.tree[i].rel : i \in TreeFiles} = {<<Conf, AppYaml>>}

EnvsecretDevPort ==
    <<"e","n","v","s","e","c","r","e","t","-","d","e","v","-","p","o","r","t">>

ExpectedEnv ==
    <<[name |-> Port,
       valueFrom |-> [secretKeyRef |-> [name |-> EnvsecretDevPort,
                                        key |-> <<"v","a","l","u","e">>]]]>>

\* the entries of the values document that do not depend on the scan
EnvAndPullSecretAsComposed ==
    LET keys == {fs.dotenv.lines[i].key : i \in DOMAIN fs.dotenv.lines}
    IN  /\ Len(last.ret.env) = Cardinality(keys)
        /\ {last.ret.env[i].name : i \in DOMAIN last.ret.env} = keys
        /\ Len(last.ret.imagePullSecrets) = 1
        /\ EndToEndInput =>
              /\ last.ret.env = ExpectedEnv
              /\ last.ret.imagePullSecrets = <<[name |-> PullDev]>>

C7_EnvsecretNameIsSlugged ==
    last.fn = "make_envsecret_name" =>
        LET prefix == <<"e","n","v","s","e","c","r","e","t","-">> \o last.env \o <<"-">>
            rest   == SubSeq(last.ret, Len(prefix) + 1, Len(last.ret))
        IN  /\ last.ret = prefix \o Slug(StrLower(StrReplace(last.arg, "_", "-")))
            /\ \A i \in DOMAIN rest : rest[i] \in VOL_MNT_WHITELIST

\* C8: when setup has finished, the persisted sidecar holds namespace,
\* envName and imagePullSecret, and every key the sidecar held when setup
\* started is still there with its value
C8_SetupKeepsKeys ==
    (last.fn = "wiz_setup" /\ pc = "done" /\ exit = "ok") =>
        LET doc == sidecar[locals.dirpath].doc
        IN  /\ ConfigKeys \subseteq DOMAIN doc
            /\ \A k \in DOMAIN locals.start : k \in DOMAIN doc /\ doc[k] = locals.start[k]

\* C9: within one process the namespace of a directory is prompted for at
\* most once, and a call of load_namespace_from_config for a directory it
\* has already returned a value for returns that value without prompting
C9_NamespaceMemoized ==
    /\ \A d \in Dirs : prompts[d] <= 1
    /\ (last.fn = "load_namespace_from_config" /\ last.repeat) =>
          /\ ~last.raised
          /\ ~last.prompted
          /\ last.ret = returned[last.dirpath]

\* C9 witness: a repeated call for a directory whose namespace was prompted
\* for earlier in the process and is no longer in the persisted sidecar
C9_Witness ==
    /\ last.fn = "load_namespace_from_config"
    /\ last.repeat
    /\ prompts[last.dirpath] = 1
    /\ "namespace" \notin DOMAIN sidecar[last.dirpath].doc

\* C10: load_wiz_config_key_or_prompt returns a stored value without
\* prompting and without touching the sidecar; otherwise it prompts, and
\* when it returns the answer the persisted sidecar maps the key to it and
\* every other key to the value it had; a directory without a sidecar loads
\* as the empty document
C10_GetOrElicit ==
    last.fn = "load_wiz_config_key_or_prompt" =>
        LET d      == last.dirpath
            stored == last.file.exists /\ last.key \in DOMAIN last.file.doc
            doc    == sidecar[d].doc
        IN  /\ ~last.file.exists => last.before = EmptyDoc
            /\ stored =>
                  /\ ~last.raised
                  /\ ~last.prompted
                  /\ last.ret = last.file.doc[last.key]
                  /\ sidecar[d] = last.file
            /\ ~stored =>
                  /\ last.prompted
                  /\ last.raised => sidecar[d] = last.file
                  /\ ~last.raised =>
                        /\ last.ret = last.answer
                        /\ sidecar[d].exists
                        /\ DOMAIN doc = (DOMAIN last.before) \cup {last.key}
                        /\ doc[last.key] = last.ret
                        /\ \A k \in DOMAIN last.before : doc[k] = last.before[k]

\* C10 witness: a value was elicited and returned for a key missing from a
\* sidecar that holds other keys
C10_Witness ==
    /\ last.fn = "load_wiz_config_key_or_prompt"
    /\ last.prompted
    /\ ~last.raised
    /\ last.file.exists
    /\ DOMAIN last.file.doc # {}

\* C11: make_release_name(chart_name, env) returns "<chart_name>-<env>" when
\* both are non-empty, and fails, returning no name, when either is empty
C11_ReleaseNameValidates ==
    last.fn = "make_release_name" =>
        IF last.arg # <<>> /\ last.env # <<>>
        THEN "ret" \in DOMAIN last /\ last.ret = last.arg \o <<"-">> \o last.env
        ELSE "ret" \notin DOMAIN last

\* the characters a slug may hold: a-z, 0-9 and '-'
SlugAlphabet ==
    {"-", "a","b","c","d","e","f","g","h","i","j","k","l","m","n","o","p","q","r",
     "s","t","u","v","w","x","y","z", "0","1","2","3","4","5","6","7","8","9"}

\* C15: the slug of make_mntsecret_name is defined for every string, holds
\* only characters of a-z, 0-9, '-', and the slug of a slug is that slug
C15_SlugTotalIdempotent ==
    last.fn = "slug" =>
        /\ "ret" \in DOMAIN last
        /\ \A i \in DOMAIN last.ret : last.ret[i] \in SlugAlphabet
        /\ last.again = last.ret

\* C15 witness: the slug was taken of a string with an upper-case letter and
\* a character outside the whitelist, so that it differs from its input
C15_Witness ==
    /\ last.fn = "slug"
    /\ \E i \in DOMAIN last.arg : last.arg[i] = "A"
    /\ \E i \in DOMAIN last.arg : last.arg[i] \in {"+", "/", "_"}
    /\ last.ret # last.arg

\* C12: the env list of _wiz_genvalues has exactly one entry per distinct
\* key of the .env file, in the order in which the keys first appear in the
\* file, each named by the unchanged key and referencing the secret
\* make_envsecret_name(env, key) under the field "value"; without a .env file
\* the list is empty and nothing is raised
C12_EnvListPerDistinctKey ==
    last.fn = "_wiz_genvalues" =>
        LET lines      == fs.dotenv.lines
            keys       == {lines[i].key : i \in DOMAIN lines}
            First(k)   == CHOOSE i \in DOMAIN lines :
                             lines[i].key = k /\ \A j \in 1..(i - 1) : lines[j].key # k
            doc        == sidecar[fs.dirpath].doc
            configured == {"envName", "imagePullSecret"} \subseteq DOMAIN doc
        IN  /\ configured => ~last.raised
            /\ ~last.raised =>
                  LET env == last.ret.env
                  IN  /\ Len(env) = Cardinality(keys)
                      /\ \A i \in DOMAIN env : env[i].name \in keys
                      /\ \A i, j \in DOMAIN env :
                            i < j => First(env[i].name) < First(env[j].name)
                      /\ \A i \in DOMAIN env :
                            env[i].valueFrom.secretKeyRef =
                               [key  |-> <<"v","a","l","u","e">>,
                                name |-> make_envsecret_name(doc["envName"], env[i].name)]
                      /\ ~fs.dotenv.exists => env = <<>>

\* C12 witness: genvalues has returned the env list of a .env file that
\* sets one key twice with another key in between
C12_Witness ==
    /\ last.fn = "_wiz_genvalues"
    /\ ~last.raised
    /\ Len(fs.dotenv.lines) = 3
    /\ fs.dotenv.lines[1].key = fs.dotenv.lines[3].key
    /\ Len(last.ret.env) = 2

\* C13: _release_create calls helm in a fixed order, dependency update
\* first and upgrade --install second; the upgrade is called only after the
\* dependency update exited 0, no call follows a non-zero one, and a command
\* with a non-zero call has failed
C13_ReleaseCallOrder ==
    /\ Len(calls) <= 2
    /\ Len(calls) >= 1 => calls[1].op = "helm dependency update"
    /\ Len(calls) = 2 =>
          /\ calls[2].op = "helm upgrade --install"
          /\ calls[1].outcome = "ok"
    /\ \A i \in DOMAIN calls : calls[i].outcome # "ok" => i = Len(calls)
    /\ (pc = "done" /\ \E i \in DOMAIN calls : calls[i].outcome # "ok") => exit = "error"
    /\ (pc = "done" /\ exit = "ok") => Len(calls) = 2

\* C13 witness: the dependency update exited non-zero and the command has
\* ended
C13_Witness ==
    /\ last.fn = "_release_create"
    /\ pc = "done"
    /\ Len(calls) = 1
    /\ calls[1].outcome = "nonzero"

\* C14: the probe has three outcomes, fixed by what `kubectl get` comes back
\* with: found returns true, "not found" returns false without raising,
\* anything else raises and returns neither
C14_ProbeThreeOutcomes ==
    last.fn = "_is_extant_k8s_item" =>
        /\ last.response \in ProbeResponses
        /\ last.response = "found" => (~last.raised /\ last.ret = TRUE)
        /\ last.response = "notfound" => (~last.raised /\ last.ret = FALSE)
        /\ last.response \notin {"found", "notfound"} =>
              (last.raised /\ "ret" \notin DOMAIN last /\ exit = "error")

\* C14 witness: a probe broke with a non-zero exit that is not "not found"
C14_Witness ==
    /\ last.fn = "_is_extant_k8s_item"
    /\ last.response = "error"
    /\ last.raised

\* C18: when setup's probe for the registry secret has answered, setup has
\* made the create call for it exactly when no secret of the configured
\* imagePullSecret name existed in the resolved namespace; a secret it
\* created is in that namespace; and a run that found the secret there (a
\* run after a successful one) made no create call, for the secret or for
\* the namespace, and left the sidecar's imagePullSecret as it was
C18_RegistrySecretCreatedWhenAbsent ==
    (last.fn = "wiz_setup" /\ "existed" \in DOMAIN last /\ last.probed) =>
        LET created(op) == \E i \in DOMAIN calls : calls[i].op = op
            doc         == sidecar[locals.dirpath].doc
        IN  /\ created("create secret docker-registry") <=> ~last.existed
            /\ (exit = "ok" /\ ~last.existed) =>
                  <<locals.namespace, last.name>> \in DOMAIN remote
            /\ last.existed =>
                  /\ ~created("create secret docker-registry")
                  /\ ~created("create namespace")
                  /\ exit = "ok"
                  /\ "imagePullSecret" \in DOMAIN locals.start
                  /\ "imagePullSecret" \in DOMAIN doc
                  /\ doc["imagePullSecret"] = locals.start["imagePullSecret"]

\* C16: after a push that ended as a success, for every group of the scan
\* the remote secret make_mntsecret_name(env, remote_dir) in the configured
\* namespace holds exactly the group's files: one key per filename, whose
\* value is the file's contents
C16_PushedGroupsHoldTheirFiles ==
    (pc = "done" /\ exit = "ok") =>
        LET groups == _get_file_metas(SecretfilesDir(fs.dirpath), fs.tree)
            doc    == sidecar[fs.dirpath].doc
        IN  \A g \in DOMAIN groups :
               LET key   == <<doc["namespace"], make_mntsecret_name(doc["envName"], groups[g].key)>>
                   files == {i \in TreeFiles : InGroup(groups, g, i)}
               IN  /\ key \in DOMAIN remote
                   /\ DOMAIN remote[key] = {MetaOf(i).filename : i \in files}
                   /\ \A i \in files : remote[key][MetaOf(i).filename] = fs.tree[i].contents

\* the secret names the values document refers to: the secretKeyRef names of
\* its env entries and the secretNames of its volumes
ReferencedSecrets(values) ==
    {values.env[i].valueFrom.secretKeyRef.name : i \in DOMAIN values.env}
    \cup {values.volumes[i].secret.secretName : i \in DOMAIN values.volumes}

\* the names a finished push has synchronized are the names the values
\* document of the same directory refers to
PushAndValuesAgreeOnNames ==
    (pc = "done" /\ exit = "ok") =>
        LET v == _wiz_genvalues(sidecar, fs)
        IN  ~v.raised => {calls[i].name : i \in DOMAIN calls} = ReferencedSecrets(v.values)

\* C17: a push that ended as a success has synchronized exactly the secret
\* names the values document refers to, in the namespace the release
\* resolves, and every one of these secrets exists in that namespace
C17_ReferencedSecretsExist ==
    (pc = "done" /\ exit = "ok") =>
        LET v  == _wiz_genvalues(sidecar, fs)
            ns == load_namespace_from_config(sidecar, EmptyDoc, fs.dirpath, <<>>)
        IN  /\ PushAndValuesAgreeOnNames
            /\ ~ns.raised
            /\ last.fn = "_set_secret_multi_cmd" => last.namespace = ns.val
            /\ ~v.raised =>
                  \A name \in ReferencedSecrets(v.values) : <<ns.val, name>> \in DOMAIN remote

====
